---------------------------- MODULE Spec2Model ----------------------------
(***************************************************************************)
(* Model of the license detection engine (src/ojt/license_detector.py).   *)
(*                                                                         *)
(* Text is a sequence of ASCII code points.  Scores are exact rationals   *)
(* <<numerator, denominator>> in lowest terms; the binary floating point  *)
(* rounding error of the program (relative 2^-53) is not modelled.        *)
(* difflib.SequenceMatcher is modelled for second arguments shorter than  *)
(* 200 characters, where its "autojunk" heuristic is inactive.            *)
(* The catalogues and texts of the input pools put no score exactly on a  *)
(* threshold or on a rounding tie, where the float and the exact value    *)
(* could fall on different sides.                                          *)
(***************************************************************************)
EXTENDS Integers, Sequences, FiniteSets, TLC

\* F(v), with v evaluated once: a local variable holding a computed value
Bind(v, F(_)) == CHOOSE r \in {F(x) : x \in {v}} : TRUE

(***************************************************************************)
(* Characters                                                              *)
(***************************************************************************)
\* str.isspace / the regex class \s, restricted to ASCII
IsSpace(c) == c \in {9, 10, 11, 12, 13, 28, 29, 30, 31, 32}

\* the regex class \w, restricted to ASCII: letters, digits, underscore
IsWord(c) == \/ c \in 48..57
             \/ c \in 65..90
             \/ c \in 97..122
             \/ c = 95

\* str.lower on one ASCII character
LowerChar(c) == IF c \in 65..90 THEN c + 32 ELSE c

\* str.lower
Lower(s) == [i \in 1..Len(s) |-> LowerChar(s[i])]

\* s[lo..hi] (1-based, inclusive), empty when lo > hi
Slice(s, lo, hi) == [i \in 1..(IF hi >= lo THEN hi - lo + 1 ELSE 0) |-> s[lo + i - 1]]

\* str.strip: drop leading and trailing whitespace
Strip(s) ==
    LET n == Len(s)
        leading == Cardinality({i \in 1..n : \A k \in 1..i : IsSpace(s[k])})
        trailing == Cardinality({i \in 1..n : \A k \in i..n : IsSpace(s[k])})
    IN Slice(s, leading + 1, n - trailing)

\* re.sub(r'\s+', ' ', s): every maximal whitespace run becomes one space
\* (the first character of a run is replaced by a space, the others dropped)
NotDropped(c) == c # -1

CollapseWhitespace(s) ==
    LET marked == [i \in 1..Len(s) |->
                      IF ~IsSpace(s[i]) THEN s[i]
                      ELSE IF i > 1 /\ IsSpace(s[i - 1]) THEN -1 ELSE 32]
    IN SelectSeq(marked, NotDropped)

\* re.sub(r'[^\w\s]', '', s): drop what is neither a word character nor whitespace
KeepsChar(c) == IsWord(c) \/ IsSpace(c)

StripPunctuation(s) == SelectSeq(s, KeepsChar)

\* LicenseDetector._normalize_text
normalize_text(t) == StripPunctuation(CollapseWhitespace(Lower(Strip(t))))

(***************************************************************************)
(* Rationals                                                               *)
(***************************************************************************)
\* greatest common divisor (a function, so that TLC evaluates the arguments once)
GCD[a \in Int, b \in Nat] == IF b = 0 THEN a ELSE GCD[b, a % b]

Rat(n, d) == LET g == GCD[n, d] IN IF g = 0 THEN <<0, 1>> ELSE <<n \div g, d \div g>>

RatLess(x, y) == x[1] * y[2] < y[1] * x[2]

RatEq(x, y) == x[1] * y[2] = y[1] * x[2]

RatAdd(x, y) == Rat(x[1] * y[2] + y[1] * x[2], x[2] * y[2])

RatSub(x, y) == Rat(x[1] * y[2] - y[1] * x[2], x[2] * y[2])

RatMul(x, y) == Rat(x[1] * y[1], x[2] * y[2])

Zero == <<0, 1>>

One == <<1, 1>>

(***************************************************************************)
(* difflib.SequenceMatcher(None, a, b).ratio()                             *)
(***************************************************************************)
Max(S) == CHOOSE x \in S : \A y \in S : y <= x

Min(S) == CHOOSE x \in S : \A y \in S : x <= y

\* length of the common run of a and b starting at a[i], b[j], kept inside
\* a[..ahi] and b[..bhi]
RunLen(a, b, i, j, ahi, bhi) ==
    IF a[i] # b[j] THEN 0
    ELSE LET lim == IF ahi - i < bhi - j THEN ahi - i + 1 ELSE bhi - j + 1
         IN Min({lim} \cup {t \in 1..(lim - 1) : a[i + t] # b[j + t]})

\* the places (i, j) inside a[alo..ahi], b[blo..bhi] where the longest common
\* runs start (none when the ranges have no character in common)
LongestRuns(a, b, alo, ahi, blo, bhi) ==
    LET common == {p \in (alo..ahi) \X (blo..bhi) : a[p[1]] = b[p[2]]}
        k == Max({0} \cup {RunLen(a, b, p[1], p[2], ahi, bhi) : p \in common})
    IN {p \in common : RunLen(a, b, p[1], p[2], ahi, bhi) = k}

\* SequenceMatcher.find_longest_match without junk: the longest block
\* a[i..i+size) = b[j..j+size) inside a[alo..ahi], b[blo..bhi]; of the longest
\* blocks the one starting earliest in a, and of those the earliest in b
find_longest_match(a, b, alo, ahi, blo, bhi) ==
    Bind(LongestRuns(a, b, alo, ahi, blo, bhi), LAMBDA starts :
        IF starts = {} THEN [i |-> alo, j |-> blo, size |-> 0]
        ELSE Bind(Min({p[1] : p \in starts}), LAMBDA besti :
             Bind(Min({p[2] : p \in {q \in starts : q[1] = besti}}), LAMBDA bestj :
                [i |-> besti, j |-> bestj, size |-> RunLen(a, b, besti, bestj, ahi, bhi)])))

\* SequenceMatcher.get_matching_blocks, summed: the block found, then the
\* pieces to its left and the pieces to its right
matched_length(a, b) ==
    LET M[alo \in Nat, ahi \in Nat, blo \in Nat, bhi \in Nat] ==
            IF alo > ahi \/ blo > bhi THEN 0
            ELSE Bind(find_longest_match(a, b, alo, ahi, blo, bhi), LAMBDA m :
                    IF m.size = 0 THEN 0
                    ELSE m.size
                         + M[alo, m.i - 1, blo, m.j - 1]
                         + M[m.i + m.size, ahi, m.j + m.size, bhi])
    IN M[1, Len(a), 1, Len(b)]

\* A plausible variant: the zero-length rule returns 0.0
calculate_ratio_zero(matches, length) ==
    IF length # 0 THEN Rat(2 * matches, length) ELSE Zero

\* difflib._calculate_ratio: 2.0 * matches / length, and 1.0 when length is 0
calculate_ratio(matches, length) ==
    IF length # 0 THEN Rat(2 * matches, length) ELSE One

\* SequenceMatcher(None, a, b).ratio()
ratio(a, b) == calculate_ratio(matched_length(a, b), Len(a) + Len(b))

\* A plausible variant: the second text compared as given, not normalised
compute_similarity_raw_second(text1, text2) ==
    ratio(normalize_text(text1), text2)

\* LicenseDetector._compute_similarity
compute_similarity(text1, text2) ==
    Bind(normalize_text(text1), LAMBDA normalized1 :
    Bind(normalize_text(text2), LAMBDA normalized2 :
        ratio(normalized1, normalized2)))

(***************************************************************************)
(* String constants: each is the sequence of code points of the quoted text *)
(***************************************************************************)
\* "Unknown"
Unknown == <<85, 110, 107, 110, 111, 119, 110>>

\* "Text too short"
TextTooShort == <<84, 101, 120, 116, 32, 116, 111, 111, 32, 115, 104, 111, 114, 116>>

\* Python's None where a string is expected (no code point is negative)
None == <<-1>>


(***************************************************************************)
(* The catalogue: a sequence, in insertion order, of                        *)
(* [license_id |-> id, info |-> the dictionary stored under id]            *)
(***************************************************************************)
\* LicenseDetector._get_default_templates
get_default_templates == <<
    [license_id |-> <<77, 73, 84>>,  \* 'MIT'
     info |-> [
        \* 'MIT License'
        name |-> <<77, 73, 84, 32, 76, 105, 99, 101, 110, 115, 101>>,
        spdx_id |-> <<77, 73, 84>>,
        keywords |-> <<
                    \* 'MIT'
                    <<77, 73, 84>>,
                    \* 'Massachusetts Institute of Technology'
                    <<77, 97, 115, 115, 97, 99, 104, 117, 115, 101, 116,
                    116, 115, 32, 73, 110, 115, 116, 105, 116, 117, 116,
                    101, 32, 111, 102, 32, 84, 101, 99, 104, 110, 111, 108,
                    111, 103, 121>>,
                    \* 'Permission is hereby granted'
                    <<80, 101, 114, 109, 105, 115, 115, 105, 111, 110, 32,
                    105, 115, 32, 104, 101, 114, 101, 98, 121, 32, 103, 114,
                    97, 110, 116, 101, 100>> >>,
        \* 'Permission is hereby granted, free of charge, to any person obtaining a copy of this software and associated documentation files'
        template |->
            <<80, 101, 114, 109, 105, 115, 115, 105, 111, 110, 32, 105, 115,
            32, 104, 101, 114, 101, 98, 121, 32, 103, 114, 97, 110, 116,
            101, 100, 44, 32, 102, 114, 101, 101, 32, 111, 102, 32, 99, 104,
            97, 114, 103, 101, 44, 32, 116, 111, 32, 97, 110, 121, 32, 112,
            101, 114, 115, 111, 110, 32, 111, 98, 116, 97, 105, 110, 105,
            110, 103, 32, 97, 32, 99, 111, 112, 121, 32, 111, 102, 32, 116,
            104, 105, 115, 32, 115, 111, 102, 116, 119, 97, 114, 101, 32,
            97, 110, 100, 32, 97, 115, 115, 111, 99, 105, 97, 116, 101, 100,
            32, 100, 111, 99, 117, 109, 101, 110, 116, 97, 116, 105, 111,
            110, 32, 102, 105, 108, 101, 115>> ]],
    [license_id |-> <<65, 112, 97, 99, 104, 101, 45, 50, 46, 48>>,  \* 'Apache-2.0'
     info |-> [
        \* 'Apache License 2.0'
        name |-> <<65, 112, 97, 99, 104, 101, 32, 76, 105, 99, 101, 110, 115,
                101, 32, 50, 46, 48>>,
        spdx_id |-> <<65, 112, 97, 99, 104, 101, 45, 50, 46, 48>>,
        keywords |-> <<
                    \* 'Apache'
                    <<65, 112, 97, 99, 104, 101>>,
                    \* 'Apache License'
                    <<65, 112, 97, 99, 104, 101, 32, 76, 105, 99, 101, 110,
                    115, 101>>,
                    \* 'Version 2.0'
                    <<86, 101, 114, 115, 105, 111, 110, 32, 50, 46, 48>>,
                    \* 'Licensed under the Apache License'
                    <<76, 105, 99, 101, 110, 115, 101, 100, 32, 117, 110,
                    100, 101, 114, 32, 116, 104, 101, 32, 65, 112, 97, 99,
                    104, 101, 32, 76, 105, 99, 101, 110, 115, 101>> >>,
        \* 'Licensed under the Apache License, Version 2.0 (the "License"); you may not use this file except in compliance with the License'
        template |->
            <<76, 105, 99, 101, 110, 115, 101, 100, 32, 117, 110, 100, 101,
            114, 32, 116, 104, 101, 32, 65, 112, 97, 99, 104, 101, 32, 76,
            105, 99, 101, 110, 115, 101, 44, 32, 86, 101, 114, 115, 105,
            111, 110, 32, 50, 46, 48, 32, 40, 116, 104, 101, 32, 34, 76,
            105, 99, 101, 110, 115, 101, 34, 41, 59, 32, 121, 111, 117, 32,
            109, 97, 121, 32, 110, 111, 116, 32, 117, 115, 101, 32, 116,
            104, 105, 115, 32, 102, 105, 108, 101, 32, 101, 120, 99, 101,
            112, 116, 32, 105, 110, 32, 99, 111, 109, 112, 108, 105, 97,
            110, 99, 101, 32, 119, 105, 116, 104, 32, 116, 104, 101, 32, 76,
            105, 99, 101, 110, 115, 101>> ]],
    [license_id |-> <<71, 80, 76, 45, 50, 46, 48>>,  \* 'GPL-2.0'
     info |-> [
        \* 'GNU General Public License v2.0'
        name |-> <<71, 78, 85, 32, 71, 101, 110, 101, 114, 97, 108, 32, 80,
                117, 98, 108, 105, 99, 32, 76, 105, 99, 101, 110, 115, 101,
                32, 118, 50, 46, 48>>,
        spdx_id |-> <<71, 80, 76, 45, 50, 46, 48>>,
        keywords |-> <<
                    \* 'GPL'
                    <<71, 80, 76>>,
                    \* 'GNU General Public License'
                    <<71, 78, 85, 32, 71, 101, 110, 101, 114, 97, 108, 32,
                    80, 117, 98, 108, 105, 99, 32, 76, 105, 99, 101, 110,
                    115, 101>>,
                    \* 'Version 2'
                    <<86, 101, 114, 115, 105, 111, 110, 32, 50>>,
                    \* 'This program is free software'
                    <<84, 104, 105, 115, 32, 112, 114, 111, 103, 114, 97,
                    109, 32, 105, 115, 32, 102, 114, 101, 101, 32, 115, 111,
                    102, 116, 119, 97, 114, 101>> >>,
        \* 'This program is free software; you can redistribute it and/or modify it under the terms of the GNU General Public License'
        template |->
            <<84, 104, 105, 115, 32, 112, 114, 111, 103, 114, 97, 109, 32,
            105, 115, 32, 102, 114, 101, 101, 32, 115, 111, 102, 116, 119,
            97, 114, 101, 59, 32, 121, 111, 117, 32, 99, 97, 110, 32, 114,
            101, 100, 105, 115, 116, 114, 105, 98, 117, 116, 101, 32, 105,
            116, 32, 97, 110, 100, 47, 111, 114, 32, 109, 111, 100, 105,
            102, 121, 32, 105, 116, 32, 117, 110, 100, 101, 114, 32, 116,
            104, 101, 32, 116, 101, 114, 109, 115, 32, 111, 102, 32, 116,
            104, 101, 32, 71, 78, 85, 32, 71, 101, 110, 101, 114, 97, 108,
            32, 80, 117, 98, 108, 105, 99, 32, 76, 105, 99, 101, 110, 115,
            101>> ]],
    [license_id |-> <<71, 80, 76, 45, 51, 46, 48>>,  \* 'GPL-3.0'
     info |-> [
        \* 'GNU General Public License v3.0'
        name |-> <<71, 78, 85, 32, 71, 101, 110, 101, 114, 97, 108, 32, 80,
                117, 98, 108, 105, 99, 32, 76, 105, 99, 101, 110, 115, 101,
                32, 118, 51, 46, 48>>,
        spdx_id |-> <<71, 80, 76, 45, 51, 46, 48>>,
        keywords |-> <<
                    \* 'GPL'
                    <<71, 80, 76>>,
                    \* 'GNU General Public License'
                    <<71, 78, 85, 32, 71, 101, 110, 101, 114, 97, 108, 32,
                    80, 117, 98, 108, 105, 99, 32, 76, 105, 99, 101, 110,
                    115, 101>>,
                    \* 'Version 3'
                    <<86, 101, 114, 115, 105, 111, 110, 32, 51>>,
                    \* 'This program is free software'
                    <<84, 104, 105, 115, 32, 112, 114, 111, 103, 114, 97,
                    109, 32, 105, 115, 32, 102, 114, 101, 101, 32, 115, 111,
                    102, 116, 119, 97, 114, 101>> >>,
        \* 'This program is free software: you can redistribute it and/or modify it under the terms of the GNU General Public License as published by the Free Software Foundation'
        template |->
            <<84, 104, 105, 115, 32, 112, 114, 111, 103, 114, 97, 109, 32,
            105, 115, 32, 102, 114, 101, 101, 32, 115, 111, 102, 116, 119,
            97, 114, 101, 58, 32, 121, 111, 117, 32, 99, 97, 110, 32, 114,
            101, 100, 105, 115, 116, 114, 105, 98, 117, 116, 101, 32, 105,
            116, 32, 97, 110, 100, 47, 111, 114, 32, 109, 111, 100, 105,
            102, 121, 32, 105, 116, 32, 117, 110, 100, 101, 114, 32, 116,
            104, 101, 32, 116, 101, 114, 109, 115, 32, 111, 102, 32, 116,
            104, 101, 32, 71, 78, 85, 32, 71, 101, 110, 101, 114, 97, 108,
            32, 80, 117, 98, 108, 105, 99, 32, 76, 105, 99, 101, 110, 115,
            101, 32, 97, 115, 32, 112, 117, 98, 108, 105, 115, 104, 101,
            100, 32, 98, 121, 32, 116, 104, 101, 32, 70, 114, 101, 101, 32,
            83, 111, 102, 116, 119, 97, 114, 101, 32, 70, 111, 117, 110,
            100, 97, 116, 105, 111, 110>> ]],
    [license_id |-> <<66, 83, 68, 45, 51, 45, 67, 108, 97, 117, 115, 101>>,  \* 'BSD-3-Clause'
     info |-> [
        \* 'BSD 3-Clause License'
        name |-> <<66, 83, 68, 32, 51, 45, 67, 108, 97, 117, 115, 101, 32,
                76, 105, 99, 101, 110, 115, 101>>,
        spdx_id |-> <<66, 83, 68, 45, 51, 45, 67, 108, 97, 117, 115, 101>>,
        keywords |-> <<
                    \* 'BSD'
                    <<66, 83, 68>>,
                    \* '3-Clause'
                    <<51, 45, 67, 108, 97, 117, 115, 101>>,
                    \* 'Redistribution and use in source and binary forms'
                    <<82, 101, 100, 105, 115, 116, 114, 105, 98, 117, 116,
                    105, 111, 110, 32, 97, 110, 100, 32, 117, 115, 101, 32,
                    105, 110, 32, 115, 111, 117, 114, 99, 101, 32, 97, 110,
                    100, 32, 98, 105, 110, 97, 114, 121, 32, 102, 111, 114,
                    109, 115>> >>,
        \* 'Redistribution and use in source and binary forms, with or without modification, are permitted provided that the following conditions are met'
        template |->
            <<82, 101, 100, 105, 115, 116, 114, 105, 98, 117, 116, 105, 111,
            110, 32, 97, 110, 100, 32, 117, 115, 101, 32, 105, 110, 32, 115,
            111, 117, 114, 99, 101, 32, 97, 110, 100, 32, 98, 105, 110, 97,
            114, 121, 32, 102, 111, 114, 109, 115, 44, 32, 119, 105, 116,
            104, 32, 111, 114, 32, 119, 105, 116, 104, 111, 117, 116, 32,
            109, 111, 100, 105, 102, 105, 99, 97, 116, 105, 111, 110, 44,
            32, 97, 114, 101, 32, 112, 101, 114, 109, 105, 116, 116, 101,
            100, 32, 112, 114, 111, 118, 105, 100, 101, 100, 32, 116, 104,
            97, 116, 32, 116, 104, 101, 32, 102, 111, 108, 108, 111, 119,
            105, 110, 103, 32, 99, 111, 110, 100, 105, 116, 105, 111, 110,
            115, 32, 97, 114, 101, 32, 109, 101, 116>> ]],
    [license_id |-> <<76, 71, 80, 76, 45, 50, 46, 49>>,  \* 'LGPL-2.1'
     info |-> [
        \* 'GNU Lesser General Public License v2.1'
        name |-> <<71, 78, 85, 32, 76, 101, 115, 115, 101, 114, 32, 71, 101,
                110, 101, 114, 97, 108, 32, 80, 117, 98, 108, 105, 99, 32,
                76, 105, 99, 101, 110, 115, 101, 32, 118, 50, 46, 49>>,
        spdx_id |-> <<76, 71, 80, 76, 45, 50, 46, 49>>,
        keywords |-> <<
                    \* 'LGPL'
                    <<76, 71, 80, 76>>,
                    \* 'Lesser General Public License'
                    <<76, 101, 115, 115, 101, 114, 32, 71, 101, 110, 101,
                    114, 97, 108, 32, 80, 117, 98, 108, 105, 99, 32, 76,
                    105, 99, 101, 110, 115, 101>>,
                    \* 'Version 2.1'
                    <<86, 101, 114, 115, 105, 111, 110, 32, 50, 46, 49>> >>,
        \* 'This library is free software; you can redistribute it and/or modify it under the terms of the GNU Lesser General Public License'
        template |->
            <<84, 104, 105, 115, 32, 108, 105, 98, 114, 97, 114, 121, 32,
            105, 115, 32, 102, 114, 101, 101, 32, 115, 111, 102, 116, 119,
            97, 114, 101, 59, 32, 121, 111, 117, 32, 99, 97, 110, 32, 114,
            101, 100, 105, 115, 116, 114, 105, 98, 117, 116, 101, 32, 105,
            116, 32, 97, 110, 100, 47, 111, 114, 32, 109, 111, 100, 105,
            102, 121, 32, 105, 116, 32, 117, 110, 100, 101, 114, 32, 116,
            104, 101, 32, 116, 101, 114, 109, 115, 32, 111, 102, 32, 116,
            104, 101, 32, 71, 78, 85, 32, 76, 101, 115, 115, 101, 114, 32,
            71, 101, 110, 101, 114, 97, 108, 32, 80, 117, 98, 108, 105, 99,
            32, 76, 105, 99, 101, 110, 115, 101>> ]] >>

(***************************************************************************)
(* Scoring and classification                                              *)
(***************************************************************************)
\* Python's `p in s` on strings
IsSubstring(p, s) ==
    \E i \in 0..(Len(s) - Len(p)) : \A k \in 1..Len(p) : s[i + k] = p[k]

\* dict.get(key, default)
Get(d, key, default) == IF key \in DOMAIN d THEN d[key] ELSE default

\* LicenseDetector._keyword_match
keyword_match(text, keywords) ==
    Bind(Lower(text), LAMBDA text_lower :
    Bind(Cardinality({i \in 1..Len(keywords) : IsSubstring(Lower(keywords[i]), text_lower)}),
         LAMBDA matches :
        IF Len(keywords) # 0 THEN Rat(matches, Len(keywords)) ELSE One))

\* A plausible variant: the two weights exchanged
combine_swapped(template_similarity, keyword_score) ==
    RatAdd(RatMul(template_similarity, <<3, 10>>), RatMul(keyword_score, <<7, 10>>))

\* (template_similarity * 0.7) + (keyword_score * 0.3)
combine(template_similarity, keyword_score) ==
    RatAdd(RatMul(template_similarity, <<7, 10>>), RatMul(keyword_score, <<3, 10>>))

\* the body of the loop of detect_license: the candidate of one catalogue entry
candidate(text, entry) ==
    Bind(compute_similarity(text, Get(entry.info, "template", <<>>)),
         LAMBDA template_similarity :
    Bind(keyword_match(text, Get(entry.info, "keywords", <<>>)),
         LAMBDA keyword_score :
        [license_id |-> entry.license_id,
         license_name |-> Get(entry.info, "name", entry.license_id),
         spdx_id |-> Get(entry.info, "spdx_id", entry.license_id),
         similarity |-> template_similarity,
         keyword_score |-> keyword_score,
         combined_score |-> combine(template_similarity, keyword_score)]))

\* A plausible variant: an unstable sort that lets the later of two equal
\* candidates come first
sort_by_score_unstable(matches) ==
    LET n == Len(matches)
        Before(i, j) == \/ RatLess(matches[j].combined_score, matches[i].combined_score)
                        \/ /\ RatEq(matches[i].combined_score, matches[j].combined_score)
                           /\ i > j
        rank(i) == 1 + Cardinality({j \in 1..n : Before(j, i)})
    IN [r \in 1..n |-> matches[CHOOSE i \in 1..n : rank(i) = r]]

\* matches.sort(key=combined_score, reverse=True): descending, and stable, so
\* candidates of equal score keep their order
sort_by_score(matches) ==
    LET n == Len(matches)
        Before(i, j) == \/ RatLess(matches[j].combined_score, matches[i].combined_score)
                        \/ /\ RatEq(matches[i].combined_score, matches[j].combined_score)
                           /\ i < j
        rank(i) == 1 + Cardinality({j \in 1..n : Before(j, i)})
    IN [r \in 1..n |-> matches[CHOOSE i \in 1..n : rank(i) = r]]

\* round(x, 3) of a score in [0, 1]: the nearest multiple of 1/1000, a tie
\* going to the even one
round3(x) ==
    LET scaled == 1000 * x[1]
        q == scaled \div x[2]
        twice == 2 * (scaled % x[2])
    IN IF twice < x[2] THEN Rat(q, 1000)
       ELSE IF twice > x[2] THEN Rat(q + 1, 1000)
       ELSE IF q % 2 = 0 THEN Rat(q, 1000) ELSE Rat(q + 1, 1000)

\* matches[:5]
top_matches(matches) == SubSeq(matches, 1, IF Len(matches) < 5 THEN Len(matches) ELSE 5)

\* A plausible variant: the threshold compared with the rounded confidence
\* that is returned
ambiguous_on_rounded(matches, threshold) ==
    IF RatLess(round3(matches[1].combined_score), threshold) THEN TRUE
    ELSE IF Len(matches) > 1
         THEN RatLess(RatSub(matches[1].combined_score, matches[2].combined_score),
                      <<15, 100>>)
         ELSE FALSE

\* the ambiguity rule of detect_license, on the sorted candidates
ambiguous(matches, threshold) ==
    IF RatLess(matches[1].combined_score, threshold) THEN TRUE
    ELSE IF Len(matches) > 1
         THEN RatLess(RatSub(matches[1].combined_score, matches[2].combined_score),
                      <<15, 100>>)
         ELSE FALSE

\* A plausible variant: the length taken without strip()
too_short_untrimmed(text) == Len(text) < 10

\* the guard of detect_license: not text or len(text.strip()) < 10
too_short(text) == Len(text) = 0 \/ Len(Strip(text)) < 10

\* the loop of detect_license: one candidate per catalogue entry, in the
\* catalogue's order
score_templates(text, license_templates) ==
    [i \in 1..Len(license_templates) |-> candidate(text, license_templates[i])]

\* the return of detect_license for a text that does not pass the guard
text_too_short ==
    [detected_license |-> Unknown,
     confidence |-> Zero,
     is_ambiguous |-> TRUE,
     matches |-> <<>>,
     spdx_id |-> None,
     reason |-> TextTooShort]

\* detect_license after its loop: the candidates sorted, the best one taken,
\* the ambiguity rule, the record returned
classify(scored, threshold) ==
    Bind(sort_by_score(scored), LAMBDA matches :
        IF Len(matches) = 0
        THEN [detected_license |-> Unknown,
              confidence |-> Zero,
              is_ambiguous |-> TRUE,
              matches |-> <<>>,
              spdx_id |-> None]
        ELSE [detected_license |-> matches[1].license_name,
              confidence |-> round3(matches[1].combined_score),
              is_ambiguous |-> ambiguous(matches, threshold),
              matches |-> top_matches(matches),
              spdx_id |-> matches[1].spdx_id,
              license_id |-> matches[1].license_id])

\* LicenseDetector.detect_license
detect_license(text, license_templates, threshold) ==
    IF too_short(text)
    THEN text_too_short
    ELSE Bind(score_templates(text, license_templates), LAMBDA scored :
            classify(scored, threshold))

\* "Permission is hereby granted, free of charge, to any person obtaining a
\* copy of this software"
MITFragment ==
    <<80, 101, 114, 109, 105, 115, 115, 105, 111, 110, 32, 105, 115, 32, 104,
      101, 114, 101, 98, 121, 32, 103, 114, 97, 110, 116, 101, 100, 44, 32,
      102, 114, 101, 101, 32, 111, 102, 32, 99, 104, 97, 114, 103, 101, 44,
      32, 116, 111, 32, 97, 110, 121, 32, 112, 101, 114, 115, 111, 110, 32,
      111, 98, 116, 97, 105, 110, 105, 110, 103, 32, 97, 32, 99, 111, 112,
      121, 32, 111, 102, 32, 116, 104, 105, 115, 32, 115, 111, 102, 116,
      119, 97, 114, 101>>

(***************************************************************************)
(* Inputs                                                                  *)
(***************************************************************************)
\* all strings over alphabet of length at most n
Strings(alphabet, n) == UNION {[1..k -> alphabet] : k \in 0..n}

\* k copies of the character c
Repeat(c, k) == [i \in 1..k |-> c]

\* "License "
LicensePrefix == <<76, 105, 99, 101, 110, 115, 101, 32>>

\* "short"
Short == <<115, 104, 111, 114, 116>>

\* 27 times "a", then "xyz"
BoundaryText ==
    <<97, 97, 97, 97, 97, 97, 97, 97, 97, 97, 97, 97, 97, 97, 97, 97, 97,
    97, 97, 97, 97, 97, 97, 97, 97, 97, 97, 120, 121, 122>>


\* catalogue files that parse: the dictionaries they hold
\* {} : no entry
EmptyCatalogue == <<>>

\* seven entries, some without a name, an spdx_id, keywords or a template
SmallCatalogue == <<
    \* 'LA': {name: 'License A', spdx_id: 'LA-1.0', keywords: ['License',
    \* 'aa', 'se a'], template: 'license aa'}
    [license_id |-> <<76, 65>>, info |-> [name |-> <<76, 105, 99, 101,
      110, 115, 101, 32, 65>>, spdx_id |-> <<76, 65, 45, 49, 46, 48>>,
      keywords |-> <<<<76, 105, 99, 101, 110, 115, 101>>, <<97, 97>>, <<115,
      101, 32, 97>>>>, template |-> <<108, 105, 99, 101, 110, 115, 101, 32,
      97, 97>>]],
    \* 'LB': {name: 'License B', spdx_id: 'LB-1.0', keywords: ['license',
    \* 'ab', 'se ab'], template: 'License, ab!'}
    [license_id |-> <<76, 66>>, info |-> [name |-> <<76, 105, 99, 101,
      110, 115, 101, 32, 66>>, spdx_id |-> <<76, 66, 45, 49, 46, 48>>,
      keywords |-> <<<<108, 105, 99, 101, 110, 115, 101>>, <<97, 98>>,
      <<115, 101, 32, 97, 98>>>>, template |-> <<76, 105, 99, 101, 110, 115,
      101, 44, 32, 97, 98, 33>>]],
    \* 'LC': {name: 'License C', template: 'zzzz'}
    [license_id |-> <<76, 67>>, info |-> [name |-> <<76, 105, 99, 101,
      110, 115, 101, 32, 67>>, template |-> <<122, 122, 122, 122>>]],
    \* 'LD': {}
    [license_id |-> <<76, 68>>, info |-> <<>>],
    \* 'LE': {spdx_id: 'LE-2.0', keywords: ['gpl'], template: 'license'}
    [license_id |-> <<76, 69>>, info |-> [spdx_id |-> <<76, 69, 45, 50,
      46, 48>>, keywords |-> <<<<103, 112, 108>>>>, template |-> <<108, 105,
      99, 101, 110, 115, 101>>]],
    \* 'LF': {name: 'License F', spdx_id: 'LF', keywords: ['qq'], template:
    \* 'qqqq'}
    [license_id |-> <<76, 70>>, info |-> [name |-> <<76, 105, 99, 101,
      110, 115, 101, 32, 70>>, spdx_id |-> <<76, 70>>, keywords |-> <<<<113,
      113>>>>, template |-> <<113, 113, 113, 113>>]],
    \* 'LG': {name: 'License G', spdx_id: 'LG', keywords: ['qq'], template:
    \* 'qqqq'}
    [license_id |-> <<76, 71>>, info |-> [name |-> <<76, 105, 99, 101,
      110, 115, 101, 32, 71>>, spdx_id |-> <<76, 71>>, keywords |-> <<<<113,
      113>>>>, template |-> <<113, 113, 113, 113>>]] >>

\* one entry, whose template is 27 times "a", then "bbbb"
BoundaryCatalogue == <<
    \* 'B1': {name: 'Boundary', spdx_id: 'B1', keywords: ['aaa', 'xyz',
    \* 'aax', 'qqq', 'www'], template: 27 * 'a' + 'bbbb'}
    [license_id |-> <<66, 49>>, info |-> [name |-> <<66, 111, 117, 110,
      100, 97, 114, 121>>, spdx_id |-> <<66, 49>>, keywords |-> <<<<97, 97,
      97>>, <<120, 121, 122>>, <<97, 97, 120>>, <<113, 113, 113>>, <<119,
      119, 119>>>>, template |-> <<97, 97, 97, 97, 97, 97, 97, 97, 97, 97,
      97, 97, 97, 97, 97, 97, 97, 97, 97, 97, 97, 97, 97, 97, 97, 97, 97,
      98, 98, 98, 98>>]] >>

(***************************************************************************)
(* Construction                                                            *)
(***************************************************************************)
\* what the catalogue file can be when the detector is constructed
SourcePool ==
    {[kind |-> "missing"], [kind |-> "unreadable"], [kind |-> "unparseable"]}
    \cup {[kind |-> "ok", content |-> c] :
             c \in {EmptyCatalogue, SmallCatalogue, BoundaryCatalogue}}

\* open(path) and json.load(f): the dictionary read, or the exception raised
open_and_load(src) ==
    CASE src.kind = "missing" -> [exception |-> "FileNotFoundError"]
      [] src.kind = "unreadable" -> [exception |-> "PermissionError"]
      [] src.kind = "unparseable" -> [exception |-> "JSONDecodeError"]
      [] src.kind = "ok" -> [exception |-> "none", value |-> src.content]

\* LicenseDetector._load_license_templates: only FileNotFoundError is caught
load_license_templates(src) ==
    LET r == open_and_load(src)
    IN IF r.exception = "FileNotFoundError"
       THEN [exception |-> "none", value |-> get_default_templates]
       ELSE r

(***************************************************************************)
(* Evaluation                                                              *)
(***************************************************************************)
\* "No samples provided"
NoSamplesProvided == <<78, 111, 32, 115, 97, 109, 112, 108, 101, 115, 32, 112, 114, 111, 118, 105, 100, 101, 100>>

\* A plausible variant: a sample without an expected label is never correct
is_correct_labelled(expected, detected) ==
    /\ Len(expected) # 0
    /\ \/ IsSubstring(Lower(expected), Lower(detected))
       \/ IsSubstring(Lower(detected), Lower(expected))

\* the comparison of evaluate_samples, on the stripped expected label and the
\* detected name
is_correct(expected, detected) ==
    LET expected_normalized == Lower(expected)
        detected_normalized == Lower(detected)
    IN \/ IsSubstring(expected_normalized, detected_normalized)
       \/ IsSubstring(detected_normalized, expected_normalized)

\* A plausible variant: a wrong sample is a false positive or else a false
\* negative, never both
tally_exclusive(acc, expected, detected) ==
    IF is_correct(expected, detected)
    THEN [acc EXCEPT !.correct = @ + 1, !.true_positives = @ + 1]
    ELSE IF detected # Unknown
         THEN [acc EXCEPT !.false_positives = @ + 1]
         ELSE [acc EXCEPT !.false_negatives = @ + (IF Len(expected) # 0 THEN 1 ELSE 0)]

\* the if/else of the loop of evaluate_samples: the counters after one sample
tally(acc, expected, detected) ==
    IF is_correct(expected, detected)
    THEN [acc EXCEPT !.correct = @ + 1, !.true_positives = @ + 1]
    ELSE [acc EXCEPT !.false_positives = @ + (IF detected # Unknown THEN 1 ELSE 0),
                     !.false_negatives = @ + (IF Len(expected) # 0 THEN 1 ELSE 0)]

\* the loop of evaluate_samples over samples[1..n]
RECURSIVE count_samples(_, _, _, _)
count_samples(samples, n, license_templates, threshold) ==
    IF n = 0
    THEN [true_positives |-> 0, false_positives |-> 0, false_negatives |-> 0, correct |-> 0]
    ELSE Bind(count_samples(samples, n - 1, license_templates, threshold), LAMBDA acc :
         Bind(Strip(Get(samples[n], "expected_license", <<>>)), LAMBDA expected :
         Bind(detect_license(Get(samples[n], "text", <<>>), license_templates, threshold),
              LAMBDA result :
         Bind(Get(result, "detected_license", Unknown), LAMBDA detected :
            tally(acc, expected, detected)))))

\* x / y if y > 0 else 0
Quotient(x, y) == IF y > 0 THEN Rat(x, y) ELSE Zero

\* the return value of evaluate_samples, from the counters c of the loop
metrics_of(c, total) ==
    LET accuracy == Quotient(c.correct, total)
        precision == Quotient(c.true_positives, c.true_positives + c.false_positives)
        recall == Quotient(c.true_positives, c.true_positives + c.false_negatives)
        pr == RatAdd(precision, recall)
        f1_score == IF pr[1] > 0
                    THEN Rat(2 * precision[1] * recall[1] * pr[2],
                             precision[2] * recall[2] * pr[1])
                    ELSE Zero
    IN [accuracy |-> round3(accuracy),
        precision |-> round3(precision),
        recall |-> round3(recall),
        f1_score |-> round3(f1_score),
        total_samples |-> total,
        correct |-> c.correct,
        true_positives |-> c.true_positives,
        false_positives |-> c.false_positives,
        false_negatives |-> c.false_negatives]

\* LicenseDetector.evaluate_samples
evaluate_samples(samples, license_templates, threshold) ==
    IF Len(samples) = 0 THEN [error |-> NoSamplesProvided]
    ELSE Bind(count_samples(samples, Len(samples), license_templates, threshold),
              LAMBDA c : metrics_of(c, Len(samples)))

(***************************************************************************)
(* Export: export_to_csv, with csv.writer in its default (excel) dialect:   *)
(* delimiter ",", quote character '"' doubled inside a quoted field, a      *)
(* field quoted only when it needs to be, rows ended by "\r\n"              *)
(***************************************************************************)
\* str(n) of an integer n >= 0
RECURSIVE str_of_int(_)
str_of_int(n) ==
    IF n < 10 THEN <<48 + n>> ELSE str_of_int(n \div 10) \o <<48 + (n % 10)>>

\* str(x) of a float x that is a multiple of 1/1000: the shortest decimal
\* with at least one digit after the point
str_of_float(x) ==
    LET k == (1000 * x[1]) \div x[2]
        whole == k \div 1000
        d1 == (k \div 100) % 10
        d2 == (k \div 10) % 10
        d3 == k % 10
        digits == IF d3 # 0 THEN <<48 + d1, 48 + d2, 48 + d3>>
                  ELSE IF d2 # 0 THEN <<48 + d1, 48 + d2>>
                  ELSE <<48 + d1>>
    IN str_of_int(whole) \o <<46>> \o digits

\* str(b) of a bool: "True" or "False"
str_of_bool(b) == IF b THEN <<84, 114, 117, 101>> ELSE <<70, 97, 108, 115, 101>>

\* the field csv.writer writes for None is empty
str_of_optional(v) == IF v = None THEN <<>> ELSE v

\* the field needs quotes: it holds the delimiter, the quote character or a
\* character of the line terminator
needs_quotes(field) == \E i \in 1..Len(field) : field[i] \in {44, 34, 13, 10}

\* every quote character of the field doubled
double_quotes(field) ==
    IF \A i \in 1..Len(field) : field[i] # 34 THEN field
    ELSE Bind([i \in 0..Len(field) |-> Cardinality({k \in 1..i : field[k] = 34})],
              LAMBDA before :
            [p \in 1..(Len(field) + before[Len(field)]) |->
                field[CHOOSE i \in 1..Len(field) :
                          i + before[i - 1] <= p /\ p <= i + before[i]]])

\* one field as csv.writer writes it
write_field(field) ==
    IF needs_quotes(field) THEN <<34>> \o double_quotes(field) \o <<34>> ELSE field

\* writer.writerow(fields) for a row of six fields: what is appended to the
\* output
writerow(fields) ==
    write_field(fields[1]) \o <<44>> \o write_field(fields[2]) \o <<44>> \o
    write_field(fields[3]) \o <<44>> \o write_field(fields[4]) \o <<44>> \o
    write_field(fields[5]) \o <<44>> \o write_field(fields[6]) \o <<13, 10>>

\* the header row of export_to_csv: "ID", "Detected License", "SPDX ID",
\* "Confidence", "Is Ambiguous", "Original Text"
CsvHeader ==
    << <<73, 68>>,
       <<68, 101, 116, 101, 99, 116, 101, 100, 32, 76, 105, 99, 101, 110, 115, 101>>,
       <<83, 80, 68, 88, 32, 73, 68>>,
       <<67, 111, 110, 102, 105, 100, 101, 110, 99, 101>>,
       <<73, 115, 32, 65, 109, 98, 105, 103, 117, 111, 117, 115>>,
       <<79, 114, 105, 103, 105, 110, 97, 108, 32, 84, 101, 120, 116>> >>

\* A plausible variant: the text is written whole
keep_original_text(original_text) == original_text

\* original_text[:100]
truncate_original_text(original_text) ==
    Slice(original_text, 1, Min({100, Len(original_text)}))

\* the row export_to_csv writes for one result, each value as str() gives it
row_of(result) ==
    << IF "id" \in DOMAIN result THEN str_of_int(result.id) ELSE <<>>,
       Get(result, "detected_license", Unknown),
       str_of_optional(Get(result, "spdx_id", <<>>)),
       IF "confidence" \in DOMAIN result THEN str_of_float(result.confidence) ELSE <<48>>,
       str_of_bool(Get(result, "is_ambiguous", FALSE)),
       truncate_original_text(Get(result, "original_text", <<>>)) >>

\* the loop of export_to_csv over results[1..n]
RECURSIVE write_rows(_, _)
write_rows(results, n) ==
    IF n = 0 THEN <<>>
    ELSE write_rows(results, n - 1) \o writerow(row_of(results[n]))

\* LicenseDetector.export_to_csv
export_to_csv(results) == writerow(CsvHeader) \o write_rows(results, Len(results))

(***************************************************************************)
(* Bounds and input pools of the detector's specification                  *)
(***************************************************************************)
\* longest tail appended to "License " in the generated texts
MaxTail == 3

\* longest sample sequence handed to evaluate_samples
MaxSamples == 2

\* the texts handed to detect_license
TextPool ==
    {<<>>, Short, MITFragment, BoundaryText}
    \cup {LicensePrefix \o w : w \in Strings({97, 98, 32}, MaxTail)}

\* "License aa"
LicenseAA == LicensePrefix \o <<97, 97>>

\* the labelled samples: the expected labels are "The License A v2",
\* " license ", "GPL", "unknown" and a space with a tab; the last sample has
\* no expected_license
SamplePool ==
    {[text |-> LicenseAA, expected_license |-> <<84, 104, 101, 32, 76, 105, 99, 101, 110, 115, 101, 32, 65, 32, 118, 50>>],
     [text |-> LicenseAA, expected_license |-> <<32, 108, 105, 99, 101, 110, 115, 101, 32>>],
     [text |-> LicenseAA, expected_license |-> <<71, 80, 76>>],
     [text |-> Short, expected_license |-> <<71, 80, 76>>],
     [text |-> Short, expected_license |-> <<117, 110, 107, 110, 111, 119, 110>>],
     [text |-> LicenseAA, expected_license |-> <<32, 9>>],
     [text |-> Short]}

SampleSeqs == UNION {[1..k -> SamplePool] : k \in 0..MaxSamples}

(***************************************************************************)
(* The detector: construction, then calls                                  *)
(***************************************************************************)
VARIABLES
    pc,                   \* "new", "ready", "raised", "detected", "evaluated"
    source,               \* the catalogue file
    license_templates,    \* self.license_templates
    ambiguous_threshold,  \* self.ambiguous_threshold
    confidence_threshold, \* self.confidence_threshold
    exception,            \* the exception that left __init__, or "none"
    text,                 \* the argument of the detect_license call
    result,               \* what detect_license returned
    samples,              \* the argument of the evaluate_samples call
    metrics,              \* what evaluate_samples returned
    args,                 \* the arguments of a call of another method
    returned,             \* what that method returned
    callers               \* the calls in progress of the concurrent callers

vars == <<pc, source, license_templates, ambiguous_threshold,
          confidence_threshold, exception, text, result, samples, metrics,
          args, returned, callers>>

\* the arguments and the return value of a call of one of the other methods
call == <<args, returned>>

self == <<source, license_templates, ambiguous_threshold, confidence_threshold,
          exception>>

Init ==
    /\ pc = "new"
    /\ source \in SourcePool
    /\ license_templates = <<>>
    /\ ambiguous_threshold = Zero
    /\ confidence_threshold = Zero
    /\ exception = "none"
    /\ text = <<>>
    /\ result = <<>>
    /\ samples = <<>>
    /\ metrics = <<>>
    /\ args = <<>>
    /\ returned = <<>>
    /\ callers = <<>>

\* LicenseDetector.__init__
Construct ==
    /\ pc = "new"
    /\ LET r == load_license_templates(source)
       IN IF r.exception = "none"
          THEN /\ license_templates' = r.value
               /\ ambiguous_threshold' = <<3, 5>>
               /\ confidence_threshold' = <<4, 5>>
               /\ exception' = "none"
               /\ pc' = "ready"
          ELSE /\ exception' = r.exception
               /\ pc' = "raised"
               /\ UNCHANGED <<license_templates, ambiguous_threshold, confidence_threshold>>
    /\ UNCHANGED <<source, text, result, samples, metrics, call, callers>>

\* a call of detect_license
Detect(t) ==
    /\ pc = "ready"
    /\ text' = t
    /\ result' = detect_license(t, license_templates, confidence_threshold)
    /\ pc' = "detected"
    /\ UNCHANGED <<self, samples, metrics, call, callers>>

\* a call of evaluate_samples
Evaluate(ss) ==
    /\ pc = "ready"
    /\ samples' = ss
    /\ metrics' = evaluate_samples(ss, license_templates, confidence_threshold)
    /\ pc' = "evaluated"
    /\ UNCHANGED <<self, text, result, call, callers>>

\* the caller takes the value returned; the detector is ready for the next call
Return ==
    /\ pc \in {"detected", "evaluated"}
    /\ pc' = "ready"
    /\ text' = <<>>
    /\ result' = <<>>
    /\ samples' = <<>>
    /\ metrics' = <<>>
    /\ UNCHANGED <<self, call, callers>>

Next ==
    \/ Construct
    \/ \E t \in TextPool : Detect(t)
    \/ \E ss \in SampleSeqs : Evaluate(ss)
    \/ Return

Spec == Init /\ [][Next]_vars

(***************************************************************************)
(* Calls of _normalize_text and _compute_similarity on a constructed       *)
(* detector; neither reads or writes a field of the detector               *)
(***************************************************************************)
detector == <<source, license_templates, ambiguous_threshold,
              confidence_threshold, exception, text, result, samples, metrics>>

\* the detector after LicenseDetector() with no catalogue file present
ConstructedDefault ==
    /\ source = [kind |-> "missing"]
    /\ license_templates = get_default_templates
    /\ ambiguous_threshold = <<3, 5>>
    /\ confidence_threshold = <<4, 5>>
    /\ exception = "none"
    /\ text = <<>>
    /\ result = <<>>
    /\ samples = <<>>
    /\ metrics = <<>>

\* longest generated text handed to _normalize_text
MaxText == 4

\* "a , b"
PunctuationBetweenSpaces == <<97, 32, 44, 32, 98>>

\* the texts handed to _normalize_text: over "a", "A", space, comma and
\* newline
NormalizeTexts ==
    Strings({97, 65, 32, 44, 10}, MaxText) \cup {PunctuationBetweenSpaces}

InitNormalize ==
    /\ pc = "normalize"
    /\ args \in {[text |-> t] : t \in NormalizeTexts}
    /\ returned = <<>>
    /\ callers = <<>>
    /\ ConstructedDefault

\* a call of _normalize_text
Normalize ==
    /\ pc = "normalize"
    /\ returned' = normalize_text(args.text)
    /\ pc' = "normalized"
    /\ UNCHANGED <<args, detector, callers>>

\* a call of _normalize_text on what the first call returned
NormalizeAgain ==
    /\ pc = "normalized"
    /\ args' = [text |-> returned]
    /\ returned' = normalize_text(returned)
    /\ pc' = "normalized again"
    /\ UNCHANGED <<detector, callers>>

NextNormalize == Normalize \/ NormalizeAgain

SpecNormalize == InitNormalize /\ [][NextNormalize]_vars

\* longest generated string handed to _compute_similarity
MaxWord == 4

\* the strings handed to _compute_similarity: over "a" and "b", and "A", ",",
\* " " and ", "
Words ==
    Strings({97, 98}, MaxWord) \cup {<<65>>, <<44>>, <<32>>, <<44, 32>>}

InitSimilarity ==
    /\ pc = "compare"
    /\ args \in {[text1 |-> a, text2 |-> b] : a \in Words, b \in Words}
    /\ returned = <<>>
    /\ callers = <<>>
    /\ ConstructedDefault

\* a call of _compute_similarity
ComputeSimilarity ==
    /\ pc = "compare"
    /\ returned' = compute_similarity(args.text1, args.text2)
    /\ pc' = "compared"
    /\ UNCHANGED <<args, detector, callers>>

NextSimilarity == ComputeSimilarity

SpecSimilarity == InitSimilarity /\ [][NextSimilarity]_vars

(***************************************************************************)
(* Calls of export_to_csv on a constructed detector                        *)
(***************************************************************************)
\* longest sequence of results handed to export_to_csv
MaxResults == 2

\* the original texts of the exported results: 99, 100 and 101 times "a";
\* 'a"b', "a,b", "a\nb" and "a\r\nb"; and texts with a line break as their
\* 100th and as their 101st character
OriginalTexts ==
    {Repeat(97, 99), Repeat(97, 100), Repeat(97, 101),
     <<97, 34, 98>>, <<97, 44, 98>>, <<97, 10, 98>>, <<97, 13, 10, 98>>,
     Repeat(97, 99) \o <<10, 98>>, Repeat(97, 100) \o <<10>>}

\* the exported results: a classified fragment for each text, the result of
\* the short-text gate, a result holding an id only, and an empty result
ResultPool ==
    {[id |-> 1,
      detected_license |-> <<77, 73, 84, 32, 76, 105, 99, 101, 110, 115, 101>>,
      spdx_id |-> <<77, 73, 84>>,
      confidence |-> <<687, 1000>>,
      is_ambiguous |-> TRUE,
      original_text |-> t] : t \in OriginalTexts}
    \cup {[id |-> 12, detected_license |-> Unknown, spdx_id |-> None,
           confidence |-> Zero, is_ambiguous |-> TRUE, matches |-> <<>>,
           reason |-> TextTooShort, original_text |-> Short],
          [id |-> 0],
          <<>>}

InitCsv ==
    /\ pc = "export"
    /\ args \in {[results |-> rs] :
                    rs \in UNION {[1..k -> ResultPool] : k \in 0..MaxResults}}
    /\ returned = <<>>
    /\ callers = <<>>
    /\ ConstructedDefault

\* a call of export_to_csv
ExportToCsv ==
    /\ pc = "export"
    /\ returned' = export_to_csv(args.results)
    /\ pc' = "exported"
    /\ UNCHANGED <<args, detector, callers>>

NextCsv == ExportToCsv

SpecCsv == InitCsv /\ [][NextCsv]_vars

(***************************************************************************)
(* Concurrent callers of one detector (the handlers of app.py run on the   *)
(* module-level detector): each caller is inside at most one call, and the *)
(* calls interleave between the iterations of their loops                  *)
(***************************************************************************)
\* the number of concurrent callers
MaxCallers == 2

Callers == 1..MaxCallers

\* "License ba"
LicenseBA == LicensePrefix \o <<98, 97>>

\* the texts the concurrent callers hand to detect_license
ConcurrentTexts == {LicenseAA, LicenseBA, Short}

\* the sample sequences they hand to evaluate_samples
ConcurrentSamples ==
    {<<[text |-> LicenseAA, expected_license |-> <<71, 80, 76>>]>>,
     <<[text |-> LicenseBA, expected_license |-> <<32, 108, 105, 99, 101, 110, 115, 101, 32>>],
       [text |-> Short]>>}

\* the fragments they post to batch_analyze
ConcurrentFragments ==
    {<<[text |-> LicenseBA, id |-> 7]>>,
     <<[text |-> Short], [text |-> LicenseAA]>>}

\* the results they hand to export_to_csv
ConcurrentResults == {<<>>, <<[id |-> 0]>>}

\* a caller that is inside no call; i counts the iterations of the loop of
\* the call, matches and acc are the locals the loop fills
Idle == [pc |-> "idle", args |-> <<>>, i |-> 0, matches |-> <<>>, acc |-> <<>>,
         returned |-> <<>>]

InitConcurrent ==
    /\ pc = "ready"
    /\ source \in {[kind |-> "ok", content |-> c] : c \in {EmptyCatalogue, SmallCatalogue}}
    /\ license_templates = source.content
    /\ ambiguous_threshold = <<3, 5>>
    /\ confidence_threshold = <<4, 5>>
    /\ exception = "none"
    /\ text = <<>>
    /\ result = <<>>
    /\ samples = <<>>
    /\ metrics = <<>>
    /\ args = <<>>
    /\ returned = <<>>
    /\ callers = [c \in Callers |-> Idle]

\* detect_license is entered: the guard, then matches = []
CallDetect(c, t) ==
    /\ callers[c].pc = "idle"
    /\ callers' = [callers EXCEPT ![c] =
           IF too_short(t)
           THEN [Idle EXCEPT !.pc = "detected", !.args = [text |-> t],
                             !.returned = text_too_short]
           ELSE [Idle EXCEPT !.pc = "scoring", !.args = [text |-> t]]]
    /\ UNCHANGED <<pc, detector, call>>

\* A plausible variant: matches is a list of the detector, one for all callers
append_match_shared(cs, c, match) ==
    [k \in DOMAIN cs |-> [cs[k] EXCEPT !.matches = Append(@, match)]]

\* matches.append(...) on the list that is local to the call of caller c
append_match(cs, c, match) ==
    [cs EXCEPT ![c].matches = Append(@, match)]

\* one iteration of the loop of detect_license
ScoreNext(c) ==
    /\ callers[c].pc = "scoring"
    /\ callers[c].i < Len(license_templates)
    /\ callers' = append_match([callers EXCEPT ![c].i = @ + 1], c,
                               candidate(callers[c].args.text,
                                         license_templates[callers[c].i + 1]))
    /\ UNCHANGED <<pc, detector, call>>

\* detect_license after its loop, up to its return
DetectReturn(c) ==
    /\ callers[c].pc = "scoring"
    /\ callers[c].i = Len(license_templates)
    /\ callers' = [callers EXCEPT ![c].pc = "detected",
                                  ![c].returned = classify(callers[c].matches,
                                                           confidence_threshold)]
    /\ UNCHANGED <<pc, detector, call>>

\* evaluate_samples is entered: the guard, then the counters set to zero
CallEvaluate(c, ss) ==
    /\ callers[c].pc = "idle"
    /\ callers' = [callers EXCEPT ![c] =
           IF Len(ss) = 0
           THEN [Idle EXCEPT !.pc = "evaluated", !.args = [samples |-> ss],
                             !.returned = [error |-> NoSamplesProvided]]
           ELSE [Idle EXCEPT !.pc = "evaluating", !.args = [samples |-> ss],
                             !.acc = [true_positives |-> 0, false_positives |-> 0,
                                      false_negatives |-> 0, correct |-> 0]]]
    /\ UNCHANGED <<pc, detector, call>>

\* one iteration of the loop of evaluate_samples
EvaluateNext(c) ==
    /\ callers[c].pc = "evaluating"
    /\ callers[c].i < Len(callers[c].args.samples)
    /\ LET sample == callers[c].args.samples[callers[c].i + 1]
           expected == Strip(Get(sample, "expected_license", <<>>))
           detected == Get(detect_license(Get(sample, "text", <<>>), license_templates,
                                          confidence_threshold),
                           "detected_license", Unknown)
       IN callers' = [callers EXCEPT ![c].i = @ + 1,
                                     ![c].acc = tally(@, expected, detected)]
    /\ UNCHANGED <<pc, detector, call>>

\* evaluate_samples after its loop, up to its return
EvaluateReturn(c) ==
    /\ callers[c].pc = "evaluating"
    /\ callers[c].i = Len(callers[c].args.samples)
    /\ callers' = [callers EXCEPT ![c].pc = "evaluated",
                                  ![c].returned = metrics_of(callers[c].acc,
                                                             Len(callers[c].args.samples))]
    /\ UNCHANGED <<pc, detector, call>>

\* a call of export_to_csv, which reads nothing of the detector
CallExport(c, rs) ==
    /\ callers[c].pc = "idle"
    /\ callers' = [callers EXCEPT ![c] =
           [Idle EXCEPT !.pc = "exported", !.args = [results |-> rs],
                        !.returned = export_to_csv(rs)]]
    /\ UNCHANGED <<pc, detector, call>>

\* batch_analyze is entered with a non-empty list of fragments: results = []
CallBatch(c, fragments) ==
    /\ callers[c].pc = "idle"
    /\ Len(fragments) > 0
    /\ callers' = [callers EXCEPT ![c] =
           [Idle EXCEPT !.pc = "analyzing", !.args = [fragments |-> fragments]]]
    /\ UNCHANGED <<pc, detector, call>>

\* one iteration of the loop of batch_analyze: the fragment is classified,
\* and its id and text are added to the record detect_license returned
BatchNext(c) ==
    /\ callers[c].pc = "analyzing"
    /\ callers[c].i < Len(callers[c].args.fragments)
    /\ LET fragment == callers[c].args.fragments[callers[c].i + 1]
           classified == detect_license(Get(fragment, "text", <<>>), license_templates,
                                        confidence_threshold)
           labelled == [id |-> Get(fragment, "id", Len(callers[c].acc)),
                        original_text |-> Get(fragment, "text", <<>>)] @@ classified
       IN callers' = [callers EXCEPT ![c].i = @ + 1, ![c].acc = Append(@, labelled)]
    /\ UNCHANGED <<pc, detector, call>>

\* batch_analyze after its loop
BatchReturn(c) ==
    /\ callers[c].pc = "analyzing"
    /\ callers[c].i = Len(callers[c].args.fragments)
    /\ callers' = [callers EXCEPT ![c].pc = "analyzed",
                                  ![c].returned = [results |-> callers[c].acc]]
    /\ UNCHANGED <<pc, detector, call>>

\* the caller takes the value returned and is free for its next call
CallerReturn(c) ==
    /\ callers[c].pc \in {"detected", "evaluated", "exported", "analyzed"}
    /\ callers' = [callers EXCEPT ![c] = Idle]
    /\ UNCHANGED <<pc, detector, call>>

NextConcurrent ==
    \E c \in Callers :
        \/ \E t \in ConcurrentTexts : CallDetect(c, t)
        \/ ScoreNext(c)
        \/ DetectReturn(c)
        \/ \E ss \in ConcurrentSamples : CallEvaluate(c, ss)
        \/ EvaluateNext(c)
        \/ EvaluateReturn(c)
        \/ \E rs \in ConcurrentResults : CallExport(c, rs)
        \/ \E fragments \in ConcurrentFragments : CallBatch(c, fragments)
        \/ BatchNext(c)
        \/ BatchReturn(c)
        \/ CallerReturn(c)

SpecConcurrent == InitConcurrent /\ [][NextConcurrent]_vars

(***************************************************************************)
(* Properties of detect_license                                            *)
(***************************************************************************)
\* a detect_license call has returned a best match
Classified == pc = "detected" /\ "license_id" \in DOMAIN result

\* the second disjunct of the ambiguity rule, on the returned matches (the
\* returned list has two entries exactly when there are two candidates)
CloseSecond ==
    /\ Len(result.matches) >= 2
    /\ RatLess(RatSub(result.matches[1].combined_score,
                      result.matches[2].combined_score), <<15, 100>>)

\* C1, as stated: after a call that passes the length gate against a
\* non-empty catalogue, is_ambiguous is true exactly when the returned
\* (rounded) confidence is below 0.8 or the top two candidates are less than
\* 0.15 apart
C1_AmbiguousIffReturnedConfidenceLow ==
    Classified =>
        (result.is_ambiguous <=> (RatLess(result.confidence, <<4, 5>>) \/ CloseSecond))

\* C1, amended: after a call that passes the length gate against a non-empty
\* catalogue, is_ambiguous is true exactly when the best candidate's
\* combined_score, before rounding, is below 0.8 or the top two candidates
\* are less than 0.15 apart
C1_AmbiguousIffBestScoreLow ==
    Classified =>
        (result.is_ambiguous <=>
            (RatLess(result.matches[1].combined_score, <<4, 5>>) \/ CloseSecond))

\* a sole candidate with a score just under 0.8 that rounds to 0.8
C1_RoundsUpToThreshold ==
    /\ Classified
    /\ Len(result.matches) = 1
    /\ RatLess(result.matches[1].combined_score, <<4, 5>>)
    /\ result.confidence = <<4, 5>>
    /\ result.is_ambiguous

\* the MIT fragment has been classified against the default catalogue
MitFragmentClassified ==
    /\ pc = "detected"
    /\ text = MITFragment
    /\ license_templates = get_default_templates

\* C2, as stated: the MIT fragment against the default catalogue is reported
\* as "MIT License" with spdx_id "MIT" and is not ambiguous
C2_MitFragmentUnambiguous ==
    MitFragmentClassified =>
        /\ result.detected_license = <<77, 73, 84, 32, 76, 105, 99, 101, 110, 115, 101>>
        /\ result.spdx_id = <<77, 73, 84>>
        /\ result.is_ambiguous = FALSE

\* C2, amended: the MIT fragment against the default catalogue is reported as
\* "MIT License" with spdx_id "MIT", with confidence 0.687, which is below
\* 0.8, so is_ambiguous is true
C2_MitFragmentAmbiguous ==
    MitFragmentClassified =>
        /\ result.detected_license = <<77, 73, 84, 32, 76, 105, 99, 101, 110, 115, 101>>
        /\ result.spdx_id = <<77, 73, 84>>
        /\ result.confidence = <<687, 1000>>
        /\ result.is_ambiguous = TRUE

\* the MIT fragment classified, MIT leading the second candidate by 0.15 or more
C2_MitFragmentLeads ==
    /\ MitFragmentClassified
    /\ result.license_id = <<77, 73, 84>>
    /\ ~CloseSecond

\* the position in the catalogue of the candidate m
CatalogueIndex(m) ==
    CHOOSE k \in 1..Len(license_templates) : license_templates[k].license_id = m.license_id

\* candidate x goes before candidate y in the ranking: a higher combined_score,
\* or an equal one and an earlier place in the catalogue
RanksBefore(x, y) ==
    \/ RatLess(y.combined_score, x.combined_score)
    \/ /\ RatEq(x.combined_score, y.combined_score)
       /\ CatalogueIndex(x) < CatalogueIndex(y)

C4_ShortTextGate ==
    pc = "detected" =>
        IF text = <<>> \/ Len(Strip(text)) < 10
        THEN result = [detected_license |-> Unknown,
                       confidence |-> Zero,
                       is_ambiguous |-> TRUE,
                       matches |-> <<>>,
                       spdx_id |-> None,
                       reason |-> TextTooShort]
        ELSE "reason" \notin DOMAIN result

\* a text of 10 characters or more that is too short only once trimmed,
\* rejected in front of a non-empty catalogue
C4_ShortOnlyWhenTrimmed ==
    /\ pc = "detected"
    /\ Len(text) >= 10
    /\ Len(Strip(text)) < 10
    /\ license_templates # <<>>
    /\ "reason" \in DOMAIN result
    /\ result.matches = <<>>

(***************************************************************************)
(* Properties of construction                                              *)
(***************************************************************************)
\* C9: construction always completes, no exception leaves it, and when the
\* catalogue file is missing, unreadable or unparseable the catalogue in use
\* is the default table
C9_LoadFailureNeverSurfaces ==
    pc # "new" =>
        /\ pc # "raised"
        /\ exception = "none"
        /\ source.kind # "ok" => license_templates = get_default_templates

(***************************************************************************)
(* Properties of evaluate_samples                                          *)
(***************************************************************************)
\* the detected licence of every sample of the evaluated sequence
DetectedOfSamples ==
    [i \in 1..Len(samples) |->
        Get(detect_license(Get(samples[i], "text", <<>>), license_templates,
                           confidence_threshold),
            "detected_license", Unknown)]

\* containment in either direction, ignoring case
ContainsEitherWay(x, y) ==
    IsSubstring(Lower(x), Lower(y)) \/ IsSubstring(Lower(y), Lower(x))

\* the counters of metrics are those of the counting rule applied to the
\* labels expected[i] and the detected licences detected[i]
CountedBy(expected, detected) ==
    LET all == 1..Len(samples)
        right == {i \in all : ContainsEitherWay(expected[i], detected[i])}
        wrong == all \ right
    IN /\ metrics.total_samples = Len(samples)
       /\ metrics.correct = Cardinality(right)
       /\ metrics.true_positives = Cardinality(right)
       /\ metrics.false_positives = Cardinality({i \in wrong : detected[i] # Unknown})
       /\ metrics.false_negatives = Cardinality({i \in wrong : expected[i] # <<>>})

\* C10, as stated: for a non-empty sample sequence, a sample is correct and a
\* true positive exactly when its lowercased expected label contains or is
\* contained in the lowercased detected licence; a sample that is not correct
\* adds to false_positives when the detected licence is not "Unknown" and,
\* independently, to false_negatives when its expected label is non-empty
C10_CountsOnLabelAsGiven ==
    (pc = "evaluated" /\ samples # <<>>) =>
        CountedBy([i \in 1..Len(samples) |-> Get(samples[i], "expected_license", <<>>)],
                  DetectedOfSamples)

\* C10, amended: the same counting rule on the expected label with its
\* leading and trailing whitespace removed
C10_CountsOnTrimmedLabel ==
    (pc = "evaluated" /\ samples # <<>>) =>
        CountedBy([i \in 1..Len(samples) |-> Strip(Get(samples[i], "expected_license", <<>>))],
                  DetectedOfSamples)

\* one wrong sample has added to both counters: false_positives plus
\* false_negatives exceeds the number of samples that are not correct
C10_DoubleCounted ==
    /\ pc = "evaluated"
    /\ samples # <<>>
    /\ metrics.false_positives + metrics.false_negatives
           > metrics.total_samples - metrics.correct

\* the samples of the evaluated sequence whose expected label is missing,
\* empty or only whitespace
Unlabelled ==
    {i \in 1..Len(samples) : Strip(Get(samples[i], "expected_license", <<>>)) = <<>>}

\* C12: for a non-empty sample sequence, correct equals true_positives and
\* false_negatives equals total_samples - correct; the samples that are not
\* correct are at most those with a non-empty expected label, so a sample
\* without one is counted correct whatever was detected; false_positives is
\* at most false_negatives, and recall equals accuracy, before rounding and
\* in the metrics returned
C12_EveryMissIsAFalseNegative ==
    (pc = "evaluated" /\ samples # <<>>) =>
        /\ metrics.correct = metrics.true_positives
        /\ metrics.false_negatives = metrics.total_samples - metrics.correct
        /\ metrics.total_samples - metrics.correct <= Len(samples) - Cardinality(Unlabelled)
        /\ metrics.false_positives <= metrics.false_negatives
        /\ RatEq(Quotient(metrics.true_positives,
                          metrics.true_positives + metrics.false_negatives),
                 Quotient(metrics.correct, metrics.total_samples))
        /\ metrics.recall = metrics.accuracy

\* a sample whose label is only whitespace and whose text was classified as
\* a licence of the catalogue is counted correct, next to a sample that is
\* not correct
C12_UnlabelledCountedCorrect ==
    /\ pc = "evaluated"
    /\ Len(samples) = 2
    /\ 1 \in Unlabelled
    /\ Get(samples[1], "expected_license", <<>>) # <<>>
    /\ DetectedOfSamples[1] # Unknown
    /\ metrics.correct = 1
    /\ metrics.false_negatives = 1

(***************************************************************************)
(* Properties of _normalize_text and _compute_similarity                   *)
(***************************************************************************)
\* C5: normalising a text that is already the result of normalising returns
\* it unchanged
C5_NormalizeIdempotent ==
    pc = "normalized again" => returned = args.text

\* both strings handed to _compute_similarity are empty once normalised
BothEmptyNormalized ==
    /\ normalize_text(args.text1) = <<>>
    /\ normalize_text(args.text2) = <<>>

\* C6, as stated: the similarity of a non-empty string with itself is 1.0,
\* and the similarity is 0.0 whenever both strings are empty once normalised
C6_SelfOneEmptyZero ==
    pc = "compared" =>
        /\ (args.text1 = args.text2 /\ args.text1 # <<>>) => returned = One
        /\ BothEmptyNormalized => returned = Zero

\* C6, amended: the similarity of any string with itself is 1.0, and the
\* similarity is 1.0 whenever both strings are empty once normalised
C6_SelfOneEmptyOne ==
    pc = "compared" =>
        /\ args.text1 = args.text2 => returned = One
        /\ BothEmptyNormalized => returned = One

\* similarity("", "") has returned 1.0
C6_EmptyWithEmptyIsOne ==
    /\ pc = "compared"
    /\ args.text1 = <<>>
    /\ args.text2 = <<>>
    /\ returned = One

\* C7, as stated: the similarity of a with b equals the similarity of b with a
C7_Symmetric ==
    pc = "compared" => returned = compute_similarity(args.text2, args.text1)

\* C7, amended: the similarity of a with b is 1.0 exactly when that of b
\* with a is 1.0, and 0.0 exactly when that of b with a is 0.0
C7_SymmetricAtTheEnds ==
    pc = "compared" =>
        LET swapped == compute_similarity(args.text2, args.text1)
        IN /\ returned = One <=> swapped = One
           /\ returned = Zero <=> swapped = Zero

\* two strings whose similarity depends on the order of the arguments
C7_OrderMatters ==
    /\ pc = "compared"
    /\ RatLess(compute_similarity(args.text2, args.text1), returned)

(***************************************************************************)
(* Properties of export_to_csv, read off the text it returns               *)
(***************************************************************************)
\* position i of s is outside the quoted fields: an even number of quote
\* characters comes before it
OutsideQuotes(s, i) == Cardinality({k \in 1..(i - 1) : s[k] = 34}) % 2 = 0

\* a line ends at position i of s: at "\n", or at a "\r" that no "\n" follows
LineEndsAt(s, i) ==
    \/ s[i] = 10
    \/ s[i] = 13 /\ (i = Len(s) \/ s[i + 1] # 10)

\* the number of lines of s, as a reader that knows nothing of quotes
\* counts them
PhysicalLines(s) ==
    Cardinality({i \in 1..Len(s) : LineEndsAt(s, i)})
    + (IF Len(s) > 0 /\ ~LineEndsAt(s, Len(s)) THEN 1 ELSE 0)

\* where the rows of s end: the "\r" of each "\r\n" outside the quoted fields
RowEnds(s) ==
    {i \in 1..(Len(s) - 1) : s[i] = 13 /\ s[i + 1] = 10 /\ OutsideQuotes(s, i)}

\* the r-th row of s, without its terminator
CsvRow(s, r) ==
    LET ends == RowEnds(s)
        last == CHOOSE e \in ends : Cardinality({x \in ends : x < e}) = r - 1
        first == IF r = 1 THEN 1
                 ELSE 2 + (CHOOSE e \in ends : Cardinality({x \in ends : x < e}) = r - 2)
    IN Slice(s, first, last - 1)

\* where the fields of a row end, the last one excepted: the commas outside
\* the quoted fields
FieldEnds(row) == {i \in 1..Len(row) : row[i] = 44 /\ OutsideQuotes(row, i)}

\* the last field of a row, as written
LastField(row) == Slice(row, Max(FieldEnds(row) \cup {0}) + 1, Len(row))

\* the value of a field as written: the enclosing quotes removed and every
\* doubled quote character inside them halved
FieldValue(written) ==
    IF Len(written) < 2 \/ written[1] # 34 THEN written
    ELSE LET inner == Slice(written, 2, Len(written) - 1)
             kept == {k \in 1..Len(inner) :
                         \/ inner[k] # 34
                         \/ Cardinality({j \in 1..k : inner[j] = 34}) % 2 = 1}
         IN [p \in 1..Cardinality(kept) |->
                inner[CHOOSE k \in kept : Cardinality({j \in kept : j <= k}) = p]]

\* the Original Text value of the row written for the i-th result
OriginalTextWritten(i) == FieldValue(LastField(CsvRow(returned, i + 1)))

\* the first 100 characters of the original_text of the i-th result
FirstHundred(i) ==
    LET original_text == Get(args.results[i], "original_text", <<>>)
    IN Slice(original_text, 1, Min({100, Len(original_text)}))

\* the line ends inside the values written for the results
LineEndsWritten ==
    {<<i, f, k>> \in (1..Len(args.results)) \X {"detected_license", "spdx_id", "original_text"}
                     \X (1..100) :
        LET value == IF f = "original_text" THEN FirstHundred(i)
                     ELSE Get(args.results[i], f, <<>>)
        IN k <= Len(value) /\ LineEndsAt(value, k)}

\* C8, as stated: the text returned for a sequence of results has exactly
\* len(results) + 1 lines, and the Original Text of each row is the first 100
\* characters of the result's original_text
C8_OneLinePerResult ==
    pc = "exported" =>
        /\ PhysicalLines(returned) = Len(args.results) + 1
        /\ \A i \in 1..Len(args.results) : OriginalTextWritten(i) = FirstHundred(i)

\* C8, amended: the text returned has exactly len(results) + 1 rows, each of
\* six fields and ended by "\r\n"; its lines are these rows and one more for
\* every line end inside a written value; the Original Text of each row is
\* the first 100 characters of the result's original_text
C8_OneRowPerResult ==
    pc = "exported" =>
        /\ Cardinality(RowEnds(returned)) = Len(args.results) + 1
        /\ \A r \in 1..(Len(args.results) + 1) :
               Cardinality(FieldEnds(CsvRow(returned, r))) = 5
        /\ PhysicalLines(returned) = Len(args.results) + 1 + Cardinality(LineEndsWritten)
        /\ \A i \in 1..Len(args.results) : OriginalTextWritten(i) = FirstHundred(i)

\* a result whose text, longer than 100 characters, has a line break among
\* its first 100: the row written for it is spread over two lines
C8_BreakInsideCutText ==
    /\ pc = "exported"
    /\ \E i \in 1..Len(args.results) :
           /\ Len(Get(args.results[i], "original_text", <<>>)) > 100
           /\ Len(OriginalTextWritten(i)) = 100
           /\ \E k \in 1..100 : OriginalTextWritten(i)[k] = 10
    /\ PhysicalLines(returned) > Len(args.results) + 1

(***************************************************************************)
(* Properties of concurrent calls on one detector                          *)
(***************************************************************************)
\* the record a call of detect_license on the text has to return, the
\* catalogue and the thresholds being what they are now
DetectedAlone(t) == detect_license(t, license_templates, confidence_threshold)

\* C11: no step of a detect, evaluate, batch or export call, whatever the
\* other callers are doing, changes the catalogue or the thresholds; every
\* detect call returns what a call running alone returns for its text, so two
\* detect calls on the same text return the same record, with the same
\* matches in the same order
C11_CallsWriteNoSharedState ==
    /\ [][UNCHANGED <<license_templates, ambiguous_threshold, confidence_threshold>>]_vars
    /\ [](\A c \in Callers :
              callers[c].pc = "detected" =>
                  callers[c].returned = DetectedAlone(callers[c].args.text))
    /\ [](\A c1, c2 \in Callers :
              /\ callers[c1].pc = "detected"
              /\ callers[c2].pc = "detected"
              /\ callers[c1].args.text = callers[c2].args.text
              => callers[c1].returned = callers[c2].returned)

\* two callers whose detect calls on the same text overlapped have both
\* returned, each with the same five matches, led by a tie
C11_TwoCallersSameText ==
    \E c1, c2 \in Callers :
        /\ c1 # c2
        /\ callers[c1].pc = "detected"
        /\ callers[c2].pc = "detected"
        /\ callers[c1].args.text = callers[c2].args.text
        /\ Len(callers[c1].returned.matches) = 5
        /\ RatEq(callers[c1].returned.matches[1].combined_score,
                 callers[c1].returned.matches[2].combined_score)
        /\ callers[c2].returned.matches = callers[c1].returned.matches

=============================================================================
